---- MODULE Spec2Model ----
(***************************************************************************)
(* Talk-mode flow of the BlindAid backend: the Pi uploads a pair of images *)
(* (fields "last" and "live") to POST /talk/images, the app asks a         *)
(* question (POST /talk/query, or the socket event talk:userinput), the    *)
(* backend sends the two stored images and the question to Gemini and      *)
(* hands the extracted reply back.                                         *)
(*                                                                         *)
(* The repository holds several versions of index.js.  The ones with a     *)
(* talk query are modelled as `variant`:                                   *)
(*   "rest"   - src/index.js 116-429 and src/unnamed/part_002              *)
(*              (REST query, no socket events in talk mode)                *)
(*   "restio" - src/unnamed/part_000 (REST query, io.emit of talk:ready    *)
(*              and talk:reply)                                            *)
(*   "socket" - src/index.js 431-677 (query over the socket event          *)
(*              talk:userinput, guarded by talkImagesReady)                *)
(* src/unnamed/part_001 has the upload route only (no flag, no query); its *)
(* route is the upload of "rest" without the flag.                         *)
(*                                                                         *)
(* multer stores the files of a batch before the route handler runs, and   *)
(* a query handler runs in two parts, before and after its await of the    *)
(* call to Gemini; other requests may be handled in between.               *)
(***************************************************************************)
EXTENDS Integers, Sequences, FiniteSets, TLC

\* ---------------------------------------------------------------- bounds
\* The requests (upload batches and talk queries together) of one run.
MaxRequests == 3

\* Upload batches are numbered in the order they arrive.
Batches == 1..MaxRequests

\* The clients that send talk queries; two, so that queries can overlap.
Callers == {"app1", "app2"}

\* ------------------------------------------------------------- constants
Variants == {"rest", "restio", "socket"}

\* The two fields uploadTalkImages.fields([...]) accepts.
Fields == {"last", "live"}

\* The order in which the parts of one multipart batch arrive; a batch may
\* carry both fields, one of them, or none.  "other" is a file part that
\* fields([...]) does not allow: a field it does not name, or a second file
\* of a field whose maxCount is 1.
FieldOrders ==
  {<<>>, <<"last">>, <<"live">>, <<"last", "live">>, <<"live", "last">>,
   <<"live", "other">>}

Files == {"last.jpg", "live.jpg"}

\* The content of a slot of tempDir: what was uploaded, under which field,
\* in which batch.  NoFile: the file does not exist.
NoFile == [field |-> "none", batch |-> 0]
Image(f, b) == [field |-> f, batch |-> b]
EmptyStore == [p \in Files |-> NoFile]

\* Texts a caller may send: none (falsy), a question about the surroundings,
\* a general-knowledge question.
VisualText == "what is in front of me"
GeneralText == "who is the prime minister of India"
Texts == {"", VisualText, GeneralText}

NoReply == "<no reply>"
ReplyA == "There is a chair ahead.\nNext step:\nWalk around it."
ReplyB == "Second part."

\* What the call to Gemini can come back with.  fetched: fetch() resolved
\* (FALSE: it rejected, a network error); status: the HTTP status; parsed:
\* response.json() resolved (FALSE: the body is not JSON); candidates: the
\* candidates of the parsed body, each the texts of its content.parts ("" for
\* a part with no text).
Outcome(f, s, p, c) == [fetched |-> f, status |-> s, parsed |-> p, candidates |-> c]
NetworkError == Outcome(FALSE, 0, FALSE, <<>>)
GeminiOutcomes ==
  { NetworkError,
    Outcome(TRUE, 500, TRUE, <<>>),
    Outcome(TRUE, 500, FALSE, <<>>),
    Outcome(TRUE, 200, FALSE, <<>>),
    Outcome(TRUE, 200, TRUE, <<>>),
    Outcome(TRUE, 200, TRUE, << <<"">> >>),
    Outcome(TRUE, 200, TRUE, << <<ReplyA, ReplyB>>, <<ReplyB>> >>) }

\* ----------------------------------------------------------------- state
VARIABLES
  variant,     \* which version of index.js is running
  nStart,      \* how many talk:start events clients have sent
  talkReady,   \* talkReady / talkImagesReady
  temp,        \* tempDir: file name -> content
  uploads,     \* the POST /talk/images requests, by batch
  q,           \* each caller's talk query: idle, or awaiting Gemini
  calls,       \* the requests sent to Gemini, in order
  nDone,       \* how many talk-query handlers have finished
  done,        \* the talk query whose handler finished last
  nEmits,      \* how many socket events have been emitted
  emits,       \* the socket event emitted last
  sessions,    \* sessions: userId -> emergency session (index.js 18)
  inflight,    \* the emergency requests awaiting Telegram, by user and route
  arrived,     \* how many emergency-flow requests have been received
  request,     \* the emergency-flow request received last
  answered,    \* how many emergency-flow requests have been answered
  answer,      \* the emergency-flow response sent last
  relayed,     \* how many messages went to Telegram or the contacts
  relay        \* the message relayed last

\* The state of the talk flow and the state of the per-user emergency flow.
tvars ==
  <<variant, nStart, talkReady, temp, uploads, q, calls, nDone, done, nEmits,
    emits>>
evars ==
  <<sessions, inflight, arrived, request, answered, answer, relayed, relay>>
vars == <<tvars, evars>>

\* ---------------------------------------------------------- talkStorage
\* multer.diskStorage's filename callback.
filename(fieldname) ==
  IF fieldname = "live" THEN "live.jpg"
  ELSE IF fieldname = "last" THEN "last.jpg"
  ELSE fieldname

\* fs.existsSync and fs.readFileSync(path, "base64").
existsSync(path) == temp[path] # NoFile
readFileSync(path) == [base64 |-> temp[path]]

\* ------------------------------------------------------------- payloads
systemPrompt(v) ==
  IF v = "socket" THEN "You are assisting a blind person. (strict rules)"
  ELSE "You are a calm, practical assistant helping a blind person."

TextPart(pieces) == [kind |-> "text", text |-> pieces, data |-> [base64 |-> NoFile]]
ImagePart(b64) == [kind |-> "inline_data", text |-> <<"image/jpeg">>, data |-> b64]

PayloadReversed(v, lastBase64, liveBase64, text) ==
  IF v = "socket"
  THEN << TextPart(<<systemPrompt(v)>>),
          ImagePart(liveBase64),
          ImagePart(lastBase64),
          TextPart(<<"User said: ", text>>) >>
  ELSE << TextPart(<<systemPrompt(v)>>),
          TextPart(<<"Previous view:">>),
          ImagePart(liveBase64),
          TextPart(<<"Current view:">>),
          ImagePart(lastBase64),
          TextPart(<<"User said: ", text>>) >>

PayloadTextOnly(v, lastBase64, liveBase64, text) ==
  IF text = GeneralText
  THEN << TextPart(<<systemPrompt(v)>>), TextPart(<<"User said: ", text>>) >>
  ELSE << TextPart(<<systemPrompt(v)>>),
          ImagePart(lastBase64),
          ImagePart(liveBase64),
          TextPart(<<"User said: ", text>>) >>

\* payload.contents[0].parts
Payload(v, lastBase64, liveBase64, text) ==
  IF v = "socket"
  THEN << TextPart(<<systemPrompt(v)>>),
          ImagePart(lastBase64),
          ImagePart(liveBase64),
          TextPart(<<"User said: ", text>>) >>
  ELSE << TextPart(<<systemPrompt(v)>>),
          TextPart(<<"Previous view:">>),
          ImagePart(lastBase64),
          TextPart(<<"Current view:">>),
          ImagePart(liveBase64),
          TextPart(<<"User said: ", text>>) >>

\* ---------------------------------------------------------------- reply
Fallback(v) ==
  IF v = "socket" THEN "I am not able to help with that."
  ELSE "I am not able to understand the scene clearly."

\* An extraction that takes the last part of the last candidate.
ExtractReplyLast(data, fallback) ==
  IF /\ Len(data.candidates) > 0
     /\ Len(data.candidates[Len(data.candidates)]) > 0
  THEN LET cand == data.candidates[Len(data.candidates)] IN cand[Len(cand)]
  ELSE fallback

\* data?.candidates?.[0]?.content?.parts?.[0]?.text || <fallback>
ExtractReply(data, fallback) ==
  IF /\ Len(data.candidates) > 0
     /\ Len(data.candidates[1]) > 0
     /\ data.candidates[1][1] # ""
  THEN data.candidates[1][1]
  ELSE fallback

\* await fetch(...) or await response.json() throws: the handler's catch runs.
Throws(data) == ~data.fetched \/ ~data.parsed

\* -------------------------------------------------------------- records
Response(status, reply) == [status |-> status, reply |-> reply]
\* The socket handler returned without emitting anything.
Silent == Response(0, NoReply)

IdleQuery == [pc |-> "idle", text |-> "", ready |-> FALSE, call |-> 0]
IdleUpload == [st |-> "idle", todo |-> <<>>, files |-> {}, status |-> 0]

Finished(c, text, ready, call, gw, response) ==
  [caller |-> c, text |-> text, ready |-> ready, call |-> call, gw |-> gw,
   response |-> response]

Emit(event, to, reply) == [event |-> event, to |-> to, reply |-> reply]

HasIo(v) == v \in {"restio", "socket"}

\* ------------------------------------------- the per-user emergency flow
\* The userIds of the requests; NoUser is a body without userId.
Users == {"u1", "u2"}
NoUser == "<undefined>"
UserIds == Users \cup {NoUser}

Routes == {"emergency", "location", "photo"}

\* sessions[userId] is undefined, or { active, startedAt, location }.
\* startedAt is the number of the request that started the session.
NoSession == [defined |-> FALSE, active |-> FALSE, startedAt |-> 0,
              location |-> FALSE]
Session(active, startedAt, location) ==
  [defined |-> TRUE, active |-> active, startedAt |-> startedAt,
   location |-> location]

\* A check that lets a closed session pass.
NotDefined(userId) == userId \notin Users \/ ~sessions[userId].defined

\* !sessions[userId]?.active
NotActive(userId) == userId \notin Users \/ ~sessions[userId].active

\* What the Telegram bot does with a message; sendLog and sendPhoto catch its
\* failure and go on.
TelegramOutcomes == {"sent", "failed"}

EmergencyRequest(route, userId) == [route |-> route, userId |-> userId]
EmergencyAnswer(route, userId, status, body) ==
  [route |-> route, userId |-> userId, status |-> status, body |-> body]
Relay(kind, userId) == [kind |-> kind, userId |-> userId]

\* The server of index.js 1-113 just started: const sessions = {}.
EmergencyInit ==
  /\ sessions = [u \in Users |-> NoSession]
  /\ inflight = [u \in Users |-> [r \in Routes |-> FALSE]]
  /\ arrived = 0
  /\ request = EmergencyRequest("none", NoUser)
  /\ answered = 0
  /\ answer = EmergencyAnswer("none", NoUser, 0, "")
  /\ relayed = 0
  /\ relay = Relay("none", NoUser)

\* ----------------------------------------------------------------- Init
Init ==
  /\ EmergencyInit
  /\ variant \in Variants
  /\ nStart = 0
  /\ talkReady = FALSE
  /\ temp = EmptyStore
  /\ uploads = [b \in Batches |-> IdleUpload]
  /\ q = [c \in Callers |-> IdleQuery]
  /\ calls = <<>>
  /\ nDone = 0
  /\ done = Finished("app1", "", FALSE, 0, NetworkError, Silent)
  /\ nEmits = 0
  /\ emits = Emit("none", {}, NoReply)

\* The requests received so far: upload batches, talk queries and talk:start
\* events.
Requests ==
  Cardinality({b \in Batches : uploads[b].st # "idle"})
    + nDone + Cardinality({c \in Callers : q[c].pc = "awaiting"}) + nStart

\* ----------------------------------------------- POST /talk/images (Pi)
\* A multipart batch arrives; multer stores the file of its first part (as
\* UploadStore does for the parts after it).
UploadBegin(b, order) ==
  /\ Requests < MaxRequests
  /\ uploads[b].st = "idle"
  /\ \A a \in Batches : a < b => uploads[a].st # "idle"
  /\ IF order = <<>>
     THEN /\ uploads' = [uploads EXCEPT ![b] =
               [st |-> "writing", todo |-> <<>>, files |-> {}, status |-> 0]]
          /\ temp' = temp
     ELSE /\ uploads' = [uploads EXCEPT ![b] =
               [st |-> "writing", todo |-> Tail(order),
                files |-> {Head(order)}, status |-> 0]]
          /\ temp' = [temp EXCEPT ![filename(Head(order))] =
                                   Image(Head(order), b)]
  /\ UNCHANGED <<evars, variant, nStart, talkReady, q, calls, nDone, done, nEmits, emits>>

\* multer's disk storage writes the next file of the batch to tempDir under
\* the name filename() gives it, replacing what was there.
UploadStore(b) ==
  /\ uploads[b].st = "writing"
  /\ uploads[b].todo # <<>>
  /\ Head(uploads[b].todo) \in Fields
  /\ LET f == Head(uploads[b].todo) IN
       /\ temp' = [temp EXCEPT ![filename(f)] = Image(f, b)]
       /\ uploads' = [uploads EXCEPT ![b].todo = Tail(@),
                                     ![b].files = @ \cup {f}]
  /\ UNCHANGED <<evars, variant, nStart, talkReady, q, calls, nDone, done, nEmits, emits>>

\* multer meets a file part that fields([...]) does not allow: it removes the
\* files this request has stored and passes the error on; the route handler
\* does not run and express answers 500.
UploadAbort(b) ==
  /\ uploads[b].st = "writing"
  /\ uploads[b].todo # <<>>
  /\ Head(uploads[b].todo) \notin Fields
  /\ temp' = [p \in Files |->
       IF \E f \in uploads[b].files : filename(f) = p THEN NoFile ELSE temp[p]]
  /\ uploads' = [uploads EXCEPT ![b].st = "done", ![b].status = 500,
                                ![b].todo = <<>>]
  /\ UNCHANGED <<evars, variant, nStart, talkReady, q, calls, nDone, done, nEmits, emits>>

\* !req.files?.live || !req.files?.last
BatchIncomplete(files) == ~("live" \in files) \/ ~("last" \in files)

\* A handler that runs as soon as the request is there, before multer has
\* stored every file of the batch.
UploadHandlerEarly(b) ==
  /\ uploads[b].st = "writing"
  /\ LET fields == uploads[b].files
                     \cup {uploads[b].todo[k] : k \in DOMAIN uploads[b].todo}
     IN IF BatchIncomplete(fields)
        THEN /\ uploads' = [uploads EXCEPT ![b].st = "done", ![b].status = 400]
             /\ UNCHANGED <<talkReady, nEmits, emits>>
        ELSE /\ talkReady' = TRUE
             /\ IF HasIo(variant)
                THEN /\ nEmits' = nEmits + 1
                     /\ emits' = Emit("talk:ready", Callers, NoReply)
                ELSE UNCHANGED <<nEmits, emits>>
             /\ uploads' = [uploads EXCEPT ![b].st = "done", ![b].status = 200]
  /\ UNCHANGED <<evars, variant, nStart, temp, q, calls, nDone, done>>

\* A handler that answers a complete batch without setting the flag.
UploadHandlerNoFlag(b) ==
  /\ uploads[b].st = "writing"
  /\ uploads[b].todo = <<>>
  /\ uploads' = [uploads EXCEPT ![b].st = "done",
       ![b].status = IF BatchIncomplete(uploads[b].files) THEN 400 ELSE 200]
  /\ UNCHANGED <<evars, variant, nStart, talkReady, temp, q, calls, nDone, done, nEmits, emits>>

\* The route handler, run once multer has stored every file of the batch.
UploadHandler(b) ==
  /\ uploads[b].st = "writing"
  /\ uploads[b].todo = <<>>
  /\ IF BatchIncomplete(uploads[b].files)
     THEN /\ uploads' = [uploads EXCEPT ![b].st = "done", ![b].status = 400]
          /\ UNCHANGED <<talkReady, nEmits, emits>>
     ELSE /\ talkReady' = TRUE
          /\ IF HasIo(variant)
             THEN /\ nEmits' = nEmits + 1
                  /\ emits' = Emit("talk:ready", Callers, NoReply)
             ELSE UNCHANGED <<nEmits, emits>>
          /\ uploads' = [uploads EXCEPT ![b].st = "done", ![b].status = 200]
  /\ UNCHANGED <<evars, variant, nStart, temp, q, calls, nDone, done>>

\* GET /talk/status (the versions with POST /talk/query): the body of the
\* answer, res.json({ ready: talkReady }).  The handler changes nothing.
TalkStatus == [ready |-> talkReady]

\* The readiness client c meets: the answer it gets from GET /talk/status, the
\* gate its talk:userinput passes.  let talkReady / let talkImagesReady is one
\* variable of the module, the same for every client.
ReadinessOf(c) == talkReady

\* ------------------------------------------------------- the talk query

NeverMissing == FALSE

\* !fs.existsSync(livePath) || !fs.existsSync(lastPath)
ImagesMissing == ~existsSync("live.jpg") \/ ~existsSync("last.jpg")

\* An early return after which the caller's connection takes no query any
\* more.
ReturnAndBlock(c, text, response) ==
  /\ nDone' = nDone + 1
  /\ done' = Finished(c, text, talkReady, 0, NetworkError, response)
  /\ q' = [q EXCEPT ![c].pc = "blocked"]
  /\ UNCHANGED <<evars, variant, nStart, talkReady, temp, uploads, calls, nEmits, emits>>

\* The handler's early return: what the caller gets, nothing else changes.
Return(c, text, response) ==
  /\ nDone' = nDone + 1
  /\ done' = Finished(c, text, talkReady, 0, NetworkError, response)
  /\ UNCHANGED <<evars, variant, nStart, talkReady, temp, uploads, q, calls, nEmits, emits>>

\* A handler that resets the flag before it calls Gemini.
SendAfterReset(c, text) ==
  /\ calls' = Append(calls,
       [caller |-> c,
        parts |-> Payload(variant, readFileSync("last.jpg"),
                          readFileSync("live.jpg"), text)])
  /\ q' = [q EXCEPT ![c] = [pc |-> "awaiting", text |-> text,
                            ready |-> talkReady, call |-> Len(calls) + 1]]
  /\ talkReady' = FALSE
  /\ UNCHANGED <<evars, variant, nStart, temp, uploads, nDone, done, nEmits, emits>>

\* Both images are read and the request is sent; the handler awaits fetch().
Send(c, text) ==
  /\ calls' = Append(calls,
       [caller |-> c,
        parts |-> Payload(variant, readFileSync("last.jpg"),
                          readFileSync("live.jpg"), text)])
  /\ q' = [q EXCEPT ![c] = [pc |-> "awaiting", text |-> text,
                            ready |-> talkReady, call |-> Len(calls) + 1]]
  /\ UNCHANGED <<evars, variant, nStart, talkReady, temp, uploads, nDone, done, nEmits, emits>>

\* POST /talk/query up to its await.
TalkQuery(c, text) ==
  /\ variant \in {"rest", "restio"}
  /\ q[c].pc = "idle"
  /\ Requests < MaxRequests
  /\ IF text = "" THEN Return(c, text, Response(400, NoReply))
     ELSE IF ImagesMissing THEN Return(c, text, Response(400, NoReply))
     ELSE Send(c, text)

\* socket.on("talk:userinput") up to its await.
TalkUserInput(c, text) ==
  /\ variant = "socket"
  /\ q[c].pc = "idle"
  /\ Requests < MaxRequests
  /\ IF ~talkReady \/ text = "" THEN Return(c, text, Silent)
     ELSE IF ImagesMissing THEN Return(c, text, Silent)
     ELSE Send(c, text)

\* A client emits "talk:start" (the signal to begin a fresh capture).  The
\* connection handler registers listeners for emergency:check,
\* emergency:location, talk:userinput and disconnect only, so socket.io drops
\* the event: nothing in the server changes.
TalkStart(c) ==
  /\ HasIo(variant)
  /\ Requests < MaxRequests
  /\ nStart' = nStart + 1
  /\ UNCHANGED <<evars, variant, talkReady, temp, uploads, q, calls, nDone, done,
                 nEmits, emits>>

\* The rest of either handler, once Gemini's answer (or failure) is there.
TalkAnswer(c, data) ==
  /\ q[c].pc = "awaiting"
  /\ q' = [q EXCEPT ![c] = IdleQuery]
  /\ nDone' = nDone + 1
  /\ IF Throws(data)
     THEN \* catch: console.error; REST answers 500, the socket emits nothing
          /\ done' = Finished(c, q[c].text, q[c].ready, q[c].call, data,
                              IF variant = "socket" THEN Silent
                              ELSE Response(500, NoReply))
          /\ UNCHANGED <<talkReady, nEmits, emits>>
     ELSE LET reply == ExtractReply(data, Fallback(variant)) IN
          /\ talkReady' = FALSE
          /\ IF variant = "restio"
             THEN /\ nEmits' = nEmits + 1
                  /\ emits' = Emit("talk:reply", Callers, reply)
             ELSE IF variant = "socket"
             THEN /\ nEmits' = nEmits + 1
                  /\ emits' = Emit("talk:reply", {c}, reply)
             ELSE UNCHANGED <<nEmits, emits>>
          /\ done' = Finished(c, q[c].text, q[c].ready, q[c].call, data,
                              Response(IF variant = "socket" THEN 0 ELSE 200, reply))
  /\ UNCHANGED <<evars, variant, nStart, temp, uploads, calls>>

\* ----------------------------------------------------------------- Next
Next ==
  \/ \E b \in Batches, order \in FieldOrders : UploadBegin(b, order)
  \/ \E b \in Batches : UploadStore(b)
  \/ \E b \in Batches : UploadAbort(b)
  \/ \E b \in Batches : UploadHandler(b)
  \/ \E c \in Callers, text \in Texts : TalkQuery(c, text)
  \/ \E c \in Callers, text \in Texts : TalkUserInput(c, text)
  \/ \E c \in Callers : TalkStart(c)
  \/ \E c \in Callers, data \in GeminiOutcomes : TalkAnswer(c, data)

Spec == Init /\ [][Next]_vars

\* ============================================ the per-user emergency flow
\* index.js 1-113: POST /emergency, /location and /photo on the sessions
\* table.  Each handler runs up to its await of Telegram in one step and
\* finishes in a second one.

\* An emergency-flow request arrives.
Arrive(route, userId) ==
  /\ arrived' = arrived + 1
  /\ request' = EmergencyRequest(route, userId)

\* res.status(...).json(...) / res.json(...)
Respond(route, userId, status, body) ==
  /\ answered' = answered + 1
  /\ answer' = EmergencyAnswer(route, userId, status, body)

\* POST /emergency up to await sendLog.
Emergency(userId) ==
  /\ arrived < MaxRequests
  /\ Arrive("emergency", userId)
  /\ IF userId = NoUser
     THEN /\ Respond("emergency", userId, 400, "userId required")
          /\ UNCHANGED <<sessions, inflight>>
     ELSE /\ ~inflight[userId]["emergency"]
          /\ sessions' = [sessions EXCEPT
               ![userId] = Session(TRUE, arrived + 1, FALSE)]
          /\ inflight' = [inflight EXCEPT ![userId]["emergency"] = TRUE]
          /\ UNCHANGED <<answered, answer>>
  /\ UNCHANGED <<tvars, relayed, relay>>

\* sendLog is over: res.json({ ok: true }).
EmergencyLogged(userId, telegram) ==
  /\ inflight[userId]["emergency"]
  /\ inflight' = [inflight EXCEPT ![userId]["emergency"] = FALSE]
  /\ IF telegram = "sent"
     THEN relayed' = relayed + 1 /\ relay' = Relay("log", userId)
     ELSE UNCHANGED <<relayed, relay>>
  /\ Respond("emergency", userId, 200, "ok")
  /\ UNCHANGED <<tvars, sessions, arrived, request>>

\* POST /location up to await sendLog.
Location(userId) ==
  /\ arrived < MaxRequests
  /\ Arrive("location", userId)
  /\ IF NotActive(userId)
     THEN /\ Respond("location", userId, 400, "No active emergency")
          /\ UNCHANGED <<sessions, inflight>>
     ELSE /\ ~inflight[userId]["location"]
          /\ sessions' = [sessions EXCEPT ![userId].location = TRUE]
          /\ inflight' = [inflight EXCEPT ![userId]["location"] = TRUE]
          /\ UNCHANGED <<answered, answer>>
  /\ UNCHANGED <<tvars, relayed, relay>>

\* sendLog is over: notifyContacts, then res.json({ takePhoto: true }).
LocationLogged(userId, telegram) ==
  /\ inflight[userId]["location"]
  /\ inflight' = [inflight EXCEPT ![userId]["location"] = FALSE]
  /\ relayed' = relayed + (IF telegram = "sent" THEN 2 ELSE 1)
  /\ relay' = Relay("contacts", userId)
  /\ Respond("location", userId, 200, "takePhoto")
  /\ UNCHANGED <<tvars, sessions, arrived, request>>

\* POST /photo up to await sendPhoto; without a file part req.file is
\* undefined and req.file.path throws into the catch block.
Photo(userId, hasFile) ==
  /\ arrived < MaxRequests
  /\ Arrive("photo", userId)
  /\ IF NotActive(userId)
     THEN /\ Respond("photo", userId, 400, "No active emergency")
          /\ UNCHANGED <<sessions, inflight>>
     ELSE IF ~hasFile
     THEN /\ Respond("photo", userId, 500, "Server error")
          /\ UNCHANGED <<sessions, inflight>>
     ELSE /\ ~inflight[userId]["photo"]
          /\ inflight' = [inflight EXCEPT ![userId]["photo"] = TRUE]
          /\ UNCHANGED <<sessions, answered, answer>>
  /\ UNCHANGED <<tvars, relayed, relay>>

\* A handler that answers without closing the emergency.
PhotoSentStaysOpen(userId, telegram) ==
  /\ inflight[userId]["photo"]
  /\ inflight' = [inflight EXCEPT ![userId]["photo"] = FALSE]
  /\ IF telegram = "sent"
     THEN relayed' = relayed + 1 /\ relay' = Relay("photo", userId)
     ELSE UNCHANGED <<relayed, relay>>
  /\ Respond("photo", userId, 200, "ok")
  /\ UNCHANGED <<tvars, sessions, arrived, request>>

\* sendPhoto is over: sessions[userId].active = false; res.json({ ok: true }).
PhotoSent(userId, telegram) ==
  /\ inflight[userId]["photo"]
  /\ inflight' = [inflight EXCEPT ![userId]["photo"] = FALSE]
  /\ IF telegram = "sent"
     THEN relayed' = relayed + 1 /\ relay' = Relay("photo", userId)
     ELSE UNCHANGED <<relayed, relay>>
  /\ sessions' = [sessions EXCEPT ![userId].active = FALSE]
  /\ Respond("photo", userId, 200, "ok")
  /\ UNCHANGED <<tvars, arrived, request>>

\* index.js 1-113 is running: it has no talk flow.
EmergencyOnly ==
  /\ EmergencyInit
  /\ variant = "emergency"
  /\ nStart = 0
  /\ talkReady = FALSE
  /\ temp = EmptyStore
  /\ uploads = [b \in Batches |-> IdleUpload]
  /\ q = [c \in Callers |-> IdleQuery]
  /\ calls = <<>>
  /\ nDone = 0
  /\ done = Finished("app1", "", FALSE, 0, NetworkError, Silent)
  /\ nEmits = 0
  /\ emits = Emit("none", {}, NoReply)

EmergencyNext ==
  \/ \E userId \in UserIds : Emergency(userId)
  \/ \E userId \in Users, telegram \in TelegramOutcomes :
       EmergencyLogged(userId, telegram)
  \/ \E userId \in UserIds : Location(userId)
  \/ \E userId \in Users, telegram \in TelegramOutcomes :
       LocationLogged(userId, telegram)
  \/ \E userId \in UserIds, hasFile \in BOOLEAN : Photo(userId, hasFile)
  \/ \E userId \in Users, telegram \in TelegramOutcomes :
       PhotoSent(userId, telegram)

EmergencySpec == EmergencyOnly /\ [][EmergencyNext]_vars

\* ======================================================== claim vocabulary
\* The image parts of a request, in order.
ImageParts(parts) == SelectSeq(parts, LAMBDA p : p.kind = "inline_data")

\* The fields of batch b as the request carries them.
BatchFields(b) ==
  uploads[b].files \cup {uploads[b].todo[k] : k \in DOMAIN uploads[b].todo}

\* This step is the arrival of a talk query with this text: the handler either
\* returns at once or sends its request to Gemini.
QueryArrives(text) ==
  \/ /\ nDone' = nDone + 1
     /\ q' = q
     /\ done'.text = text
  \/ /\ Len(calls') = Len(calls) + 1
     /\ q'[calls'[Len(calls')].caller].text = text

\* This step ends a talk query that had sent a request to Gemini.
QueryAnswered == nDone' = nDone + 1 /\ done'.call # 0

\* A reply string reached the caller.
ReplyDelivered(d) == d.response.reply # NoReply

\* The call to Gemini failed: network error, non-success status, a body that
\* is not JSON, or no reply text in it.
GatewayFailed(gw) ==
  \/ ~gw.fetched
  \/ gw.status # 200
  \/ ~gw.parsed
  \/ ExtractReply(gw, NoReply) = NoReply

\* ================================================================== claims

\* C1 (as claimed): once a talk query that sent the images to Gemini has
\* finished, the readiness flag is false and last.jpg and live.jpg are gone,
\* whether Gemini answered or the call failed.
C1_OneShotConsumption ==
  [][QueryAnswered => (talkReady' = FALSE /\ temp' = EmptyStore)]_vars

\* C2 (as claimed): no two requests sent to Gemini carry the same pair of
\* images: a pair is attached to the request of at most one query.
C2_PairUsedOnce ==
  \A i, j \in DOMAIN calls :
    i # j => ImageParts(calls[i].parts) # ImageParts(calls[j].parts)

\* C3 (as claimed): a visual query arriving while the flag is false sends
\* nothing to Gemini, delivers a reply text (the fixed "not ready" message) to
\* the caller, and leaves the flag and the stored images as they were.
C3_NotReadyReply ==
  [][(~talkReady /\ QueryArrives(VisualText))
       => /\ calls' = calls
          /\ nDone' = nDone + 1
          /\ ReplyDelivered(done')
          /\ talkReady' = talkReady
          /\ temp' = temp]_vars

\* C4 (as claimed): a batch carrying only one of the two fields is answered
\* 400 and does not set the flag; and when no batch has been accepted and a
\* one-image batch has been rejected, a following visual query gets the
\* "not ready" reply and nothing is sent to Gemini.
C4_NoPartialReadiness ==
  [][/\ \A b \in Batches :
          (uploads[b].st = "writing" /\ uploads'[b].st = "done"
             /\ uploads[b].todo = <<>>
             /\ BatchIncomplete(uploads[b].files))
            => (uploads'[b].status = 400 /\ talkReady' = talkReady)
     /\ ( /\ ~talkReady
          /\ \A b \in Batches : uploads[b].st \in {"idle", "done"}
          /\ \A b \in Batches : uploads[b].status # 200
          /\ \E b \in Batches :
               uploads[b].status = 400 /\ Cardinality(uploads[b].files) = 1
          /\ QueryArrives(VisualText) )
        => /\ calls' = calls
           /\ nDone' = nDone + 1
           /\ ReplyDelivered(done')]_vars

\* C5 (as claimed): no step of an upload request whose batch misses a field
\* (and so is answered 400) changes the flag or either stored image.
C5_RejectedBatchNoChange ==
  [][\A b \in Batches :
       (uploads'[b] # uploads[b]
          /\ BatchFields(b)' \subseteq Fields
          /\ BatchIncomplete(BatchFields(b)'))
         => (talkReady' = talkReady /\ temp' = temp)]_vars

\* C6 (as claimed): a general-knowledge query issued while the flag is true
\* sends a request with no image parts and, when it ends, leaves the flag
\* true and the stored images untouched.
C6_GeneralKnowledgeNonDestructive ==
  [][(QueryAnswered /\ done'.text = GeneralText /\ done'.ready)
       => /\ ImageParts(calls[done'.call].parts) = <<>>
          /\ talkReady' = talkReady
          /\ temp' = temp]_vars

\* C6 (amended): a general-knowledge query issued while the flag is true is
\* handled like any other query: the request it sends carries both stored
\* images (two image parts), neither its arrival nor its end touches the
\* stored images, and the step that delivers its reply sets the flag to false.
C6_GeneralKnowledgeConsumes ==
  [][/\ (talkReady /\ QueryArrives(GeneralText))
          => /\ Len(calls') > Len(calls)
                  => Len(ImageParts(calls'[Len(calls')].parts)) = 2
             /\ talkReady' = talkReady
             /\ temp' = temp
     /\ (QueryAnswered /\ done'.text = GeneralText /\ done'.ready)
          => /\ Len(ImageParts(calls[done'.call].parts)) = 2
             /\ temp' = temp
             /\ (ReplyDelivered(done') => talkReady' = FALSE)]_vars

\* C6 witness: a general-knowledge query that arrived while the flag was true
\* has sent its request and delivered a reply.
C6_Witness ==
  /\ nDone > 0
  /\ done.text = GeneralText
  /\ done.ready
  /\ done.call # 0
  /\ ReplyDelivered(done)

C8_FixedImageOrdering ==
  \A i \in DOMAIN calls :
    LET parts == calls[i].parts
        images == ImageParts(parts)
        at == {k \in DOMAIN parts : parts[k].kind = "inline_data"}
    IN /\ Len(images) = 2
       /\ images[1].data.base64.field = "last"
       /\ images[2].data.base64.field = "live"
       /\ parts[Len(parts)].kind = "text"
       /\ parts[Len(parts)].text[1] = "User said: "
       /\ \A k \in at : k < Len(parts)

\* C8 witness: a request carrying two image parts has been sent to Gemini.
C8_Witness ==
  \E i \in DOMAIN calls : Len(ImageParts(calls[i].parts)) = 2

\* C9 (as claimed): when Gemini answers with status 500 or with a body that
\* cannot be parsed, the query's reply is the fixed fallback string.
C9_FailSoftGateway ==
  ( /\ nDone > 0
    /\ done.call # 0
    /\ done.gw.fetched
    /\ (done.gw.status = 500 \/ ~done.gw.parsed) )
    => done.response.reply = Fallback(variant)

\* C10 (as claimed): POST /talk/query never answers 5xx because the call to
\* Gemini failed; the caller gets the fallback reply text.
C10_NoHardError ==
  ( /\ variant \in {"rest", "restio"}
    /\ nDone > 0
    /\ done.call # 0
    /\ GatewayFailed(done.gw) )
    => /\ done.response.status < 500
       /\ done.response.reply = Fallback(variant)

\* ------------------------------------------------------------------- C11
\* This step ends a talk query: its handler returned early or finished after
\* Gemini's answer.
QueryEnds == nDone' = nDone + 1

\* C11 (as claimed): a talk query whose text is not empty never ends without
\* a reply string for its caller: images ready or not, Gemini answering or
\* failing.
C11_AlwaysOneReply ==
  [][(QueryEnds /\ done'.text # "") => ReplyDelivered(done')]_vars

\* ------------------------------------------------------------------- C12
\* C12 (as claimed): whenever the flag is true, last.jpg and live.jpg both
\* exist in tempDir.
C12_ReadyImpliesImages ==
  talkReady => (existsSync("last.jpg") /\ existsSync("live.jpg"))

\* ------------------------------------------------------------------- C13
\* C13 (as claimed): two talk queries are never both awaiting Gemini with
\* requests that carry the same pair of images.
C13_QueriesSerialized ==
  \A c1, c2 \in Callers :
    (c1 # c2 /\ q[c1].pc = "awaiting" /\ q[c2].pc = "awaiting")
      => ImageParts(calls[q[c1].call].parts)
           # ImageParts(calls[q[c2].call].parts)

\* ------------------------------------------------------------------- C14
\* This step is the route handler answering batch b, which carries both
\* fields.
BatchAccepted(b) ==
  /\ uploads[b].st = "writing"
  /\ uploads'[b].st = "done"
  /\ uploads[b].todo = <<>>
  /\ ~BatchIncomplete(uploads[b].files)

\* C14: every file of a batch is stored under its field's name when its part
\* is received; the handler answers a batch carrying both fields with 200 and
\* sets the flag, so that GET /talk/status reports ready = true; and the
\* status goes back to false only at the step where a talk query that had
\* sent both stored images to Gemini gets its reply.
C14_CompleteBatchSetsReady ==
  [][/\ \A b \in Batches : \A f \in uploads'[b].files \ uploads[b].files :
          temp'[filename(f)] = Image(f, b)
     /\ \A b \in Batches :
          BatchAccepted(b)
            => /\ uploads'[b].status = 200
               /\ talkReady'
               /\ TalkStatus'.ready
     /\ (TalkStatus.ready /\ ~TalkStatus'.ready)
          => /\ QueryAnswered
             /\ ReplyDelivered(done')
             /\ Len(ImageParts(calls[done'.call].parts)) = 2]_vars

\* C14 witness: a batch with both fields has been answered 200, both of its
\* images are in tempDir, no query has ended yet, and the status is ready.
C14_Witness ==
  /\ nDone = 0
  /\ TalkStatus.ready
  /\ \E b \in Batches :
       /\ uploads[b].status = 200
       /\ temp["last.jpg"] = Image("last", b)
       /\ temp["live.jpg"] = Image("live", b)

\* ------------------------------------------------------------------- C15
\* C15 (as claimed): a talk:start event received while the flag is true sets
\* the flag to false; no query ends and no event is emitted at that step.
C15_BeginCaptureResets ==
  [][(talkReady /\ nStart' = nStart + 1)
       => /\ ~talkReady'
          /\ nDone' = nDone
          /\ nEmits' = nEmits]_vars

\* ------------------------------------------------------------------- C16
\* How many times the step that ends a talk query hands its reply to the
\* caller: in the HTTP response, and in a talk:reply event the caller gets.
RepliesToCaller ==
  (IF done'.response.status # 0 /\ ReplyDelivered(done') THEN 1 ELSE 0)
    + (IF /\ nEmits' = nEmits + 1
          /\ emits'.event = "talk:reply"
          /\ done'.caller \in emits'.to
       THEN 1 ELSE 0)

\* C16 (as claimed): where the server pushes events, the step accepting an
\* upload batch emits exactly one talk:ready; and the step ending a talk query
\* with text delivers its reply to the caller exactly once.
C16_ExactlyOnceNotifications ==
  [][/\ \A b \in Batches :
          (BatchAccepted(b) /\ HasIo(variant))
            => (nEmits' = nEmits + 1 /\ emits'.event = "talk:ready")
     /\ (QueryEnds /\ done'.text # "") => RepliesToCaller = 1]_vars

\* ------------------------------------------------------------------- C17
\* Batch b carries exactly the two fields.
BatchComplete(b) == BatchFields(b) = Fields

\* Caller c can send a talk query with text now.
QueryAccepted(c) ==
  ENABLED (TalkQuery(c, VisualText) \/ TalkUserInput(c, VisualText))

C18_HungCallStillFinishes ==
  [][(QueryAnswered /\ ~done'.gw.fetched)
       => /\ done'.response.reply = Fallback(variant)
          /\ ~talkReady']_vars

\* ------------------------------------------------------------------- C19
\* C19: the step at which a talk query sends its request to Gemini leaves the
\* flag as it is, and the flag goes from true to false only at the step where
\* an awaiting query gets Gemini's answer for the request it had sent.
C19_ResetAfterCall ==
  [][/\ Len(calls') > Len(calls) => talkReady' = talkReady
     /\ (talkReady /\ ~talkReady')
          => \E c \in Callers :
               /\ q[c].pc = "awaiting"
               /\ q'[c].pc = "idle"
               /\ done'.caller = c
               /\ done'.call = q[c].call
               /\ done'.gw.fetched
               /\ done'.gw.parsed]_vars

\* C19 witness: a query sent while the flag was true has got its answer and
\* the flag is false.
C19_Witness ==
  /\ nDone > 0
  /\ done.call # 0
  /\ done.ready
  /\ ReplyDelivered(done)
  /\ ~talkReady

\* ------------------------------------------------------------------- C20
\* Readiness becomes visible at this step: the flag, and with it the answer
\* of GET /talk/status, turns true, or talk:ready is emitted.
ReadyShown ==
  \/ ~TalkStatus.ready /\ TalkStatus'.ready
  \/ nEmits' = nEmits + 1 /\ emits'.event = "talk:ready"

\* C20: readiness becomes visible only at the step where the handler answers
\* a batch of which the last and the live file have both been written to
\* tempDir in earlier steps; and whenever GET /talk/status would report
\* ready = true, such a batch has been answered 200.
C20_ReadyVisibleAfterStorage ==
  /\ [](TalkStatus.ready
          => \E b \in Batches :
               uploads[b].status = 200 /\ uploads[b].files = Fields)
  /\ [][ReadyShown
          => \E b \in Batches :
               /\ BatchAccepted(b)
               /\ uploads[b].files = Fields
               /\ temp' = temp]_vars

\* C20 witness: talk:ready was the last event emitted, the status is ready,
\* and tempDir holds both images of a batch answered 200.
C20_Witness ==
  /\ emits.event = "talk:ready"
  /\ TalkStatus.ready
  /\ \E b \in Batches :
       /\ uploads[b].status = 200
       /\ temp["last.jpg"] = Image("last", b)
       /\ temp["live.jpg"] = Image("live", b)

\* ------------------------------------------------------------------- C21
\* The text of the first part of the first candidate of a parsed answer, or
\* "" when a candidate, its parts or the text are missing.
FirstText(gw) ==
  IF Len(gw.candidates) > 0 /\ Len(gw.candidates[1]) > 0
  THEN gw.candidates[1][1]
  ELSE ""

\* C21: when Gemini's answer was received and parsed, the reply the caller
\* gets is the text of the first part of the first candidate, unchanged, if
\* there is such a text (and it is not empty), and the fallback string of
\* that version otherwise; the talk:reply event of that step carries the same
\* string.
C21_ReplyExtraction ==
  [][(QueryAnswered /\ done'.gw.fetched /\ done'.gw.parsed)
       => /\ done'.response.reply =
               (IF FirstText(done'.gw) # "" THEN FirstText(done'.gw)
                ELSE Fallback(variant))
          /\ HasIo(variant)
               => /\ nEmits' = nEmits + 1
                  /\ emits'.event = "talk:reply"
                  /\ emits'.reply = done'.response.reply]_vars

\* C21 witness: a query got an answer with two candidates, the first with two
\* parts, and its reply is the first part of the first candidate.
C21_Witness ==
  /\ nDone > 0
  /\ done.call # 0
  /\ Len(done.gw.candidates) = 2
  /\ Len(done.gw.candidates[1]) = 2
  /\ done.response.reply = ReplyA

\* ------------------------------------------------------------------- C22
\* C22 (as claimed): a talk query with text that arrives while the flag is
\* true and last.jpg or live.jpg does not exist sends nothing to Gemini, ends
\* at once with a reply string for the caller, and leaves the flag true.
C22_DesyncHandledAsNotReady ==
  [][(/\ talkReady
      /\ ImagesMissing
      /\ \E text \in Texts \ {""} : QueryArrives(text))
       => /\ calls' = calls
          /\ QueryEnds
          /\ ReplyDelivered(done')
          /\ talkReady']_vars

\* ------------------------------------------------------------------- C23
\* The pair of batch b is fresh: the batch was answered 200, tempDir holds
\* its two images, and no request sent to Gemini carries either of them.
FreshPair(b) ==
  /\ uploads[b].status = 200
  /\ temp["last.jpg"] = Image("last", b)
  /\ temp["live.jpg"] = Image("live", b)
  /\ \A i \in DOMAIN calls : \A k \in DOMAIN calls[i].parts :
       calls[i].parts[k].data.base64.batch # b

\* C23 (as claimed): when a talk query gets its answer while the flag is true
\* for a pair that no query has sent (a batch accepted while that query was
\* awaiting Gemini), the flag stays true.
C23_FreshPairStaysReady ==
  [][(QueryAnswered /\ talkReady /\ \E b \in Batches : FreshPair(b))
       => talkReady']_vars

\* ------------------------------------------------------------------- C24
\* C24 (as claimed): the two images of every request sent to Gemini are the
\* last and the live image of one and the same upload batch.
C24_PairIntegrity ==
  \A i \in DOMAIN calls :
    \E b \in Batches :
      /\ Len(ImageParts(calls[i].parts)) = 2
      /\ ImageParts(calls[i].parts)[1].data.base64 = Image("last", b)
      /\ ImageParts(calls[i].parts)[2].data.base64 = Image("live", b)

\* ------------------------------------------------------------------- C25
\* C25 (as claimed): the step that ends one client's talk query does not
\* change the readiness any other client meets.
C25_ReadinessPerSession ==
  [][\A c \in Callers :
       (QueryAnswered /\ done'.caller = c)
         => \A d \in Callers \ {c} : ReadinessOf(d)' = ReadinessOf(d)]_vars

\* ------------------------------------------------------------------- C26
\* C26 (as claimed): a talk:reply event goes to no client but the one whose
\* query it answers.
C26_ReplyOnlyToCaller ==
  [][(nEmits' = nEmits + 1 /\ emits'.event = "talk:reply")
       => (QueryAnswered /\ emits'.to \subseteq {done'.caller})]_vars

\* ------------------------------------------------------------------- C27
\* This step is the arrival of a request of this route for this userId.
Arrives(route, userId) ==
  arrived' = arrived + 1 /\ request' = EmergencyRequest(route, userId)

\* userId has an emergency session that is active.
ActiveSession(userId) ==
  userId \in Users /\ sessions[userId].defined /\ sessions[userId].active

\* C27: a POST /location or POST /photo that arrives for a userId without an
\* active session (none, or a closed one) is answered 400 "No active
\* emergency" at once, relays nothing and leaves sessions as it is; one that
\* arrives for a userId with an active session is not answered 400.
C27_OnlyWhileActive ==
  [][\A route \in {"location", "photo"} : \A userId \in UserIds :
       Arrives(route, userId)
         => IF ActiveSession(userId)
            THEN answered' = answered \/ answer'.status # 400
            ELSE /\ answered' = answered + 1
                 /\ answer' = EmergencyAnswer(route, userId, 400,
                                              "No active emergency")
                 /\ relayed' = relayed
                 /\ relay' = relay
                 /\ inflight' = inflight
                 /\ sessions' = sessions]_vars

\* C27 witness: the last request is a photo for a user who never started an
\* emergency while another user's emergency is active, and it got 400.
C27_Witness ==
  /\ request = EmergencyRequest("photo", "u2")
  /\ answer = EmergencyAnswer("photo", "u2", 400, "No active emergency")
  /\ ~sessions["u2"].defined
  /\ sessions["u1"].active

\* ------------------------------------------------------------------- C28
\* C28: the step at which POST /photo succeeds for a user (sendPhoto is over
\* and the handler answers ok) leaves that user's session inactive and every
\* other user's session as it was; a session that is not active becomes
\* active only at the arrival of a POST /emergency for the same userId; and
\* until then a POST /location or POST /photo for that userId is answered 400
\* on arrival.
C28_PhotoClosesEmergency ==
  [][\A userId \in Users :
       /\ (inflight[userId]["photo"] /\ ~inflight'[userId]["photo"])
            => /\ answer' = EmergencyAnswer("photo", userId, 200, "ok")
               /\ sessions'[userId].defined
               /\ ~sessions'[userId].active
               /\ \A other \in Users \ {userId} :
                    sessions'[other] = sessions[other]
       /\ (~sessions[userId].active /\ sessions'[userId].active)
            => Arrives("emergency", userId)
       /\ (~sessions[userId].active
             /\ (Arrives("location", userId) \/ Arrives("photo", userId)))
            => (answered' = answered + 1 /\ answer'.status = 400
                  /\ ~sessions'[userId].active)]_vars

\* C28 witness: a user's emergency was closed by a photo, and the location
\* sent for that user afterwards got 400.
C28_Witness ==
  /\ sessions["u1"].defined
  /\ ~sessions["u1"].active
  /\ request = EmergencyRequest("location", "u1")
  /\ answer = EmergencyAnswer("location", "u1", 400, "No active emergency")

====
